---- MODULE Spec2Model ----
(***************************************************************************)
(* The FireX event aggregator (firexapp/events/event_aggregator.py): a     *)
(* fold of task-lifecycle events into a store of task records.             *)
(*                                                                         *)
(* Python values are modelled as follows.  A dict is a function whose      *)
(* DOMAIN is its set of keys (the empty dict is the empty function).  A    *)
(* value that may be None is an option: None is <<>> and a present value v *)
(* is <<v>> (parent_id, timestamp, root_uuid).  A string is a TLA+ string; *)
(* the empty string is the only falsy uuid the inputs use.  A list is a    *)
(* sequence.  A dotted name (long_name, name) is the non-empty sequence of *)
(* its '.'-separated segments; None stands for a value of these fields     *)
(* that is not a string.                                                   *)
(***************************************************************************)
EXTENDS Integers, Sequences, FiniteSets, TLC

VARIABLES
    tasks_by_uuid,  \* FireXEventAggregator.tasks_by_uuid: uuid -> task record
    new_task_num,   \* AbstractFireXEventAggregator.new_task_num
    root_uuid,      \* AbstractFireXEventAggregator.root_uuid (None or Some(uuid))
    changes,        \* the mapping returned by the last _aggregate_event call
                    \* (the empty mapping when it raised)
    raised,         \* whether the last _aggregate_event call raised
    history,        \* every event passed to the aggregator so far, in order
    op,             \* the public method called last
    prior,          \* the aggregator's state before the last call
    batch,          \* the events argument of the last aggregate_events call
    now,            \* the clock read by the last generate_incomplete_events
    new_events,     \* the list the last generate_incomplete_events returned
    threads,        \* per thread: its place in its aggregate_events call
                    \* and the call's local variables
    lock            \* the thread in the mutual-exclusion region, or None

vars == <<tasks_by_uuid, new_task_num, root_uuid, changes, raised, history,
          op, prior, batch, now, new_events, threads, lock>>

----------------------------------------------------------------------------
(* Bounds of the model. *)

\* The number of events delivered in one behaviour.
MaxEvents == 4

\* The number of events of one aggregate_events call of the batch scenarios.
MaxBatch == 2

----------------------------------------------------------------------------
(* Python values. *)

None == <<>>
Some(v) == <<v>>

EmptyDict == <<>>

\* d.get(k, default)
Get(d, k, default) == IF k \in DOMAIN d THEN d[k] ELSE default

\* dict(d1); d1.update(d2)
Update(d1, d2) ==
    [k \in DOMAIN d1 \cup DOMAIN d2 |-> IF k \in DOMAIN d2 THEN d2[k] ELSE d1[k]]

\* {k: v for k, v in d.items() if k in keys}
Restrict(d, keys) == [k \in DOMAIN d \cap keys |-> d[k]]

\* {k: v for k, v in d.items() if k not in keys}
Without(d, keys) == [k \in DOMAIN d \ keys |-> d[k]]

\* bool(uuid) of a string uuid.
Truthy(s) == s /= ""

----------------------------------------------------------------------------
(* The run-state vocabulary (firexapp.events.model, firexkit.task). *)

FIREX_REVOKE_COMPLETE_EVENT_TYPE == "firex-revoke-complete"

INCOMPLETE_RUNSTATES == {"task-received", "task-started"}

COMPLETE_RUNSTATES == {"task-succeeded", "task-failed", "task-revoked"}

ALL_RUNSTATES == INCOMPLETE_RUNSTATES \cup COMPLETE_RUNSTATES

REVOKED_EVENT_TYPE == "task-revoked"

RUN_STATE_EVENT_TYPES_and_incomplete ==
    ALL_RUNSTATES \cup {FIREX_REVOKE_COMPLETE_EVENT_TYPE, "task-incomplete"}

RUN_STATE_EVENT_TYPES == ALL_RUNSTATES \cup {FIREX_REVOKE_COMPLETE_EVENT_TYPE}

event_type_to_task_state_raw(event_type) == event_type

event_type_to_task_state(event_type) ==
    IF event_type = FIREX_REVOKE_COMPLETE_EVENT_TYPE
    THEN REVOKED_EVENT_TYPE
    ELSE event_type

----------------------------------------------------------------------------
(* FIELD_CONFIG and the configuration derived from it. *)

copy_fields_and_timestamp ==
    {"uuid", "hostname", "parent_id", "type", "retries", "bound_args",
     "actual_runtime", "utcoffset", "default_bound_args", "from_plugin",
     "results", "traceback", "exception", "long_name", "chain_depth",
     "exception_cause_uuid", "timestamp"}

copy_fields ==
    {"uuid", "hostname", "parent_id", "type", "retries", "bound_args",
     "actual_runtime", "utcoffset", "default_bound_args", "from_plugin",
     "results", "traceback", "exception", "long_name", "chain_depth",
     "exception_cause_uuid"}

merge_fields == {"states"}

keep_initial_fields == {"first_started"}

transform_fields_name_first ==
    <<"type", "name", "long_name", "url", "log_filepath", "local_received">>

\* The fields that carry a transform_celery, in FIELD_CONFIG's order (the
\* order in which get_new_event_data applies them).
transform_fields ==
    <<"type", "long_name", "name", "url", "log_filepath", "local_received">>

\* A dotted name is the sequence of its '.'-separated segments, so that
\* s.split('.') is s itself and s.split('.')[-1] is the one-segment name
\* made of its last segment.
LastSegment(s) == <<s[Len(s)]>>

\* Whether the value has a split method.
IsStr(v) == v /= None

transform_type_raw_entry(e) ==
    IF e.type \in RUN_STATE_EVENT_TYPES
    THEN [state  |-> event_type_to_task_state(e.type),
          states |-> <<[state     |-> e.type,
                        timestamp |-> Get(e, "timestamp", None)]>>]
    ELSE EmptyDict

transform_type_any_type(e) ==
    [state  |-> event_type_to_task_state(e.type),
     states |-> <<[state     |-> event_type_to_task_state(e.type),
                   timestamp |-> Get(e, "timestamp", None)]>>]

\* FIELD_CONFIG['type']['transform_celery']
transform_type(e) ==
    IF e.type \in RUN_STATE_EVENT_TYPES
    THEN [state  |-> event_type_to_task_state(e.type),
          states |-> <<[state     |-> event_type_to_task_state(e.type),
                        timestamp |-> Get(e, "timestamp", None)]>>]
    ELSE EmptyDict

\* field_to_celery_transforms[field](e)
Transform(field, e) ==
    CASE field = "type"           -> transform_type(e)
      [] field = "long_name"      -> [name |-> LastSegment(e.long_name)]
      [] field = "name"           -> [name      |-> LastSegment(e.name),
                                      long_name |-> e.name]
      [] field = "url"            -> [logs_url |-> e.url]
      [] field = "log_filepath"   -> [logs_url |-> e.log_filepath]
      [] field = "local_received" -> [first_started |-> e.local_received]

\* Whether field_to_celery_transforms[field](e) raises: the transforms of
\* long_name and name call split on the value (AttributeError when it is
\* not a string); the others only read the event.
TransformRaises(field, e) ==
    field \in {"long_name", "name"} /\ ~IsStr(e[field])

----------------------------------------------------------------------------
(* _deep_merge_keys / _deep_merge. *)

\* Every value of a merge field is a list: only the type transform writes
\* 'states', always as a list, so of the type dispatch of _deep_merge the
\* list branch is the one that a key present in both operands takes.
_deep_merge_reversed(dict1, dict2) ==
    [k \in DOMAIN dict1 \cup DOMAIN dict2 |->
        IF k \in DOMAIN dict2
        THEN IF k \in DOMAIN dict1 THEN dict2[k] \o dict1[k] ELSE dict2[k]
        ELSE dict1[k]]

_deep_merge(dict1, dict2) ==
    [k \in DOMAIN dict1 \cup DOMAIN dict2 |->
        IF k \in DOMAIN dict2
        THEN IF k \in DOMAIN dict1 THEN dict1[k] \o dict2[k] ELSE dict2[k]
        ELSE dict1[k]]

_deep_merge_keys(dict1, dict2, keys) ==
    _deep_merge(Restrict(dict1, keys), Restrict(dict2, keys))

----------------------------------------------------------------------------
(* get_new_event_data: the proposed update of one event. *)

RECURSIVE ApplyTransforms(_, _, _)
ApplyTransforms(event, new_task_data, i) ==
    IF i > Len(transform_fields)
    THEN new_task_data
    ELSE ApplyTransforms(
            event,
            IF transform_fields[i] \in DOMAIN event
            THEN Update(new_task_data, Transform(transform_fields[i], event))
            ELSE new_task_data,
            i + 1)

get_new_event_data(event) ==
    ApplyTransforms(event, Restrict(event, copy_fields), 1)

\* Whether get_new_event_data(event) raises.
get_new_event_data_raises(event) ==
    \E i \in 1..Len(transform_fields) :
        /\ transform_fields[i] \in DOMAIN event
        /\ TransformRaises(transform_fields[i], event)

----------------------------------------------------------------------------
(* find_data_changes: the delta of a proposed update against a record. *)

ChangedIn(task, data) ==
    [k \in {f \in DOMAIN data : f \notin DOMAIN task \/ task[f] /= data[f]}
        |-> data[k]]

find_data_changes_overwrite(task, new_task_data) ==
    LET override_dict == Without(new_task_data, merge_fields)
        merged_values == _deep_merge_keys(task, new_task_data, merge_fields)
    IN  Update(ChangedIn(task, override_dict), ChangedIn(task, merged_values))

find_data_changes_all(task, new_task_data) ==
    LET override_dict ==
            Without(new_task_data, keep_initial_fields \cup merge_fields)
        kept == [k \in {f \in keep_initial_fields :
                            f \in DOMAIN new_task_data /\ f \notin DOMAIN task}
                    |-> new_task_data[k]]
        merged_values == _deep_merge_keys(task, new_task_data, merge_fields)
    IN  Update(Update(override_dict, kept), ChangedIn(task, merged_values))

find_data_changes(task, new_task_data) ==
    LET override_dict ==
            Without(new_task_data, keep_initial_fields \cup merge_fields)
        changed_override == ChangedIn(task, override_dict)
        kept == [k \in {f \in keep_initial_fields :
                            f \in DOMAIN new_task_data /\ f \notin DOMAIN task}
                    |-> new_task_data[k]]
        merged_values == _deep_merge_keys(task, new_task_data, merge_fields)
    IN  Update(Update(changed_override, kept), ChangedIn(task, merged_values))

----------------------------------------------------------------------------
(* The in-memory task store of FireXEventAggregator. *)

_task_exists(tasks, task_uuid) ==
    IF ~Truthy(task_uuid) THEN FALSE ELSE task_uuid \in DOMAIN tasks

_get_task(tasks, task_uuid) == tasks[task_uuid]

_insert_new_task(tasks, task) ==
    [u \in DOMAIN tasks \cup {task.uuid} |->
        IF u = task.uuid THEN task ELSE tasks[u]]

\* Whether an assertion of _insert_new_task fails for this insert.
InsertAsserts(tasks, task) ==
    \/ "uuid" \notin DOMAIN task
    \/ _task_exists(tasks, task.uuid)

_update_task_replace(tasks, task_uuid, full_task, changed_data) ==
    [tasks EXCEPT ![task_uuid] = changed_data]

_update_task(tasks, task_uuid, full_task, changed_data) ==
    [tasks EXCEPT ![task_uuid] = Update(full_task, changed_data)]

_get_incomplete_tasks_runtime_only(tasks) ==
    {u \in DOMAIN tasks : "actual_runtime" \notin DOMAIN tasks[u]}

_get_incomplete_tasks(tasks) ==
    {u \in DOMAIN tasks :
        \/ "actual_runtime" \notin DOMAIN tasks[u]
        \/ ("state" \in DOMAIN tasks[u] /\ tasks[u].state \in INCOMPLETE_RUNSTATES)}

----------------------------------------------------------------------------
(* The aggregator core.  The aggregator's state is passed as a record st   *)
(* with the fields tasks_by_uuid, new_task_num and root_uuid.              *)

_get_or_create_task_no_increment(st, task_uuid) ==
    IF ~_task_exists(st.tasks_by_uuid, task_uuid)
    THEN LET task == [uuid |-> task_uuid, task_num |-> st.new_task_num]
         IN  [tasks_by_uuid |-> _insert_new_task(st.tasks_by_uuid, task),
              new_task_num |-> st.new_task_num,
              is_new |-> TRUE,
              asserts |-> InsertAsserts(st.tasks_by_uuid, task)]
    ELSE [tasks_by_uuid |-> st.tasks_by_uuid,
          new_task_num |-> st.new_task_num,
          is_new |-> FALSE,
          asserts |-> FALSE]

_get_or_create_task_always_insert(st, task_uuid) ==
    LET task == [uuid |-> task_uuid, task_num |-> st.new_task_num]
    IN  [tasks_by_uuid |-> _insert_new_task(st.tasks_by_uuid, task),
         new_task_num |-> st.new_task_num + 1,
         is_new |-> TRUE,
         asserts |-> InsertAsserts(st.tasks_by_uuid, task)]

\* The store and counter after the call, and is_new; the task itself is
\* tasks_by_uuid[task_uuid] of the result.  asserts: an assertion of
\* _insert_new_task fails, and the call raises instead of returning.
_get_or_create_task(st, task_uuid) ==
    IF ~_task_exists(st.tasks_by_uuid, task_uuid)
    THEN LET task == [uuid |-> task_uuid, task_num |-> st.new_task_num]
         IN  [tasks_by_uuid |-> _insert_new_task(st.tasks_by_uuid, task),
              new_task_num |-> st.new_task_num + 1,
              is_new |-> TRUE,
              asserts |-> InsertAsserts(st.tasks_by_uuid, task)]
    ELSE [tasks_by_uuid |-> st.tasks_by_uuid,
          new_task_num |-> st.new_task_num,
          is_new |-> FALSE,
          asserts |-> FALSE]

\* The condition of the early return of _aggregate_event.
IsDropped_no_revoke_check(st, event) ==
    \/ "uuid" \notin DOMAIN event
    \/ ~Truthy(event.uuid)

IsDropped(st, event) ==
    \/ "uuid" \notin DOMAIN event
    \/ ~Truthy(event.uuid)
    \/ /\ ~_task_exists(st.tasks_by_uuid, event.uuid)
       /\ Get(event, "type", "") = REVOKED_EVENT_TYPE

\* The root_uuid after the root assignment of _aggregate_event.
AssignRoot_always(st, event) ==
    IF "parent_id" \in DOMAIN event /\ event.parent_id = None
    THEN Some(event.uuid)
    ELSE st.root_uuid

AssignRoot(st, event) ==
    IF /\ "parent_id" \in DOMAIN event
       /\ event.parent_id = None
       /\ st.root_uuid = None
    THEN Some(event.uuid)
    ELSE st.root_uuid

AggregateAccepted_delta_only(st, event) ==
    IF get_new_event_data_raises(event)
    THEN [tasks_by_uuid |-> st.tasks_by_uuid,
          new_task_num  |-> st.new_task_num,
          root_uuid     |-> AssignRoot(st, event),
          ret           |-> EmptyDict,
          raised        |-> TRUE]
    ELSE IF _get_or_create_task(st, event.uuid).asserts
    THEN [tasks_by_uuid |-> st.tasks_by_uuid,
          new_task_num  |-> st.new_task_num,
          root_uuid     |-> AssignRoot(st, event),
          ret           |-> EmptyDict,
          raised        |-> TRUE]
    ELSE
    LET task_uuid == event.uuid
        new_task_data == get_new_event_data(event)
        created == _get_or_create_task(st, task_uuid)
        task == _get_task(created.tasks_by_uuid, task_uuid)
        changed_data == find_data_changes(task, new_task_data)
        tasks_after ==
            IF changed_data /= EmptyDict
            THEN _update_task(created.tasks_by_uuid, task_uuid, task, changed_data)
            ELSE created.tasks_by_uuid
    IN  [tasks_by_uuid |-> tasks_after,
         new_task_num  |-> created.new_task_num,
         root_uuid     |-> AssignRoot(st, event),
         ret           |-> [u \in {task_uuid} |-> changed_data],
         raised        |-> FALSE]

\* The body of _aggregate_event after the early return: the state after the
\* call, the returned mapping (ret) and whether the call raised.  The root
\* assignment comes first; get_new_event_data may then raise, before the
\* store is touched.  An assertion of _insert_new_task fails before the
\* insert.
AggregateAccepted(st, event) ==
    IF get_new_event_data_raises(event)
    THEN [tasks_by_uuid |-> st.tasks_by_uuid,
          new_task_num  |-> st.new_task_num,
          root_uuid     |-> AssignRoot(st, event),
          ret           |-> EmptyDict,
          raised        |-> TRUE]
    ELSE IF _get_or_create_task(st, event.uuid).asserts
    THEN [tasks_by_uuid |-> st.tasks_by_uuid,
          new_task_num  |-> st.new_task_num,
          root_uuid     |-> AssignRoot(st, event),
          ret           |-> EmptyDict,
          raised        |-> TRUE]
    ELSE
    LET task_uuid == event.uuid
        new_task_data == get_new_event_data(event)
        created == _get_or_create_task(st, task_uuid)
        task == _get_task(created.tasks_by_uuid, task_uuid)
        changed_data == find_data_changes(task, new_task_data)
        tasks_after ==
            IF changed_data /= EmptyDict
            THEN _update_task(created.tasks_by_uuid, task_uuid, task, changed_data)
            ELSE created.tasks_by_uuid
    IN  [tasks_by_uuid |-> tasks_after,
         new_task_num  |-> created.new_task_num,
         root_uuid     |-> AssignRoot(st, event),
         ret           |-> [u \in {task_uuid} |->
                               IF created.is_new
                               THEN tasks_after[task_uuid]
                               ELSE changed_data],
         raised        |-> FALSE]

_aggregate_event_root_first(st, event) ==
    IF "uuid" \in DOMAIN event
    THEN IF IsDropped(st, event)
         THEN [tasks_by_uuid |-> st.tasks_by_uuid,
               new_task_num  |-> st.new_task_num,
               root_uuid     |-> AssignRoot(st, event),
               ret           |-> EmptyDict,
               raised        |-> FALSE]
         ELSE AggregateAccepted(st, event)
    ELSE [tasks_by_uuid |-> st.tasks_by_uuid,
          new_task_num  |-> st.new_task_num,
          root_uuid     |-> st.root_uuid,
          ret           |-> EmptyDict,
          raised        |-> FALSE]

_aggregate_event(st, event) ==
    IF IsDropped(st, event)
    THEN [tasks_by_uuid |-> st.tasks_by_uuid,
          new_task_num  |-> st.new_task_num,
          root_uuid     |-> st.root_uuid,
          ret           |-> EmptyDict,
          raised        |-> FALSE]
    ELSE AggregateAccepted(st, event)

is_root_complete(st) ==
    IF st.root_uuid = None \/ ~_task_exists(st.tasks_by_uuid, st.root_uuid[1])
    THEN FALSE
    ELSE LET root == _get_task(st.tasks_by_uuid, st.root_uuid[1])
         IN  "state" \in DOMAIN root /\ root.state \in COMPLETE_RUNSTATES

are_all_tasks_complete_no_root_check(st) ==
    _get_incomplete_tasks(st.tasks_by_uuid) = {}

are_all_tasks_complete(st) ==
    IF ~is_root_complete(st)
    THEN FALSE
    ELSE _get_incomplete_tasks(st.tasks_by_uuid) = {}

MergeChanges_first_wins(new_data_by_task_uuid, event_new_data_by_task_uuid) ==
    [u \in DOMAIN new_data_by_task_uuid \cup DOMAIN event_new_data_by_task_uuid |->
        IF u \in DOMAIN event_new_data_by_task_uuid
        THEN Update(event_new_data_by_task_uuid[u],
                    Get(new_data_by_task_uuid, u, EmptyDict))
        ELSE new_data_by_task_uuid[u]]

\* new_data_by_task_uuid after one more event's mapping: per uuid, a dict
\* update of what the batch has reported so far.
MergeChanges(new_data_by_task_uuid, event_new_data_by_task_uuid) ==
    [u \in DOMAIN new_data_by_task_uuid \cup DOMAIN event_new_data_by_task_uuid |->
        IF u \in DOMAIN event_new_data_by_task_uuid
        THEN Update(Get(new_data_by_task_uuid, u, EmptyDict),
                    event_new_data_by_task_uuid[u])
        ELSE new_data_by_task_uuid[u]]

\* The loop of aggregate_events after n iterations: the state, the mapping
\* built so far (ret), whether an iteration raised, and the number of
\* events whose _aggregate_event call returned (done).  An exception ends
\* the loop: the later events are not processed and no mapping is returned.
RECURSIVE AggregateEventsLoop(_, _, _)
AggregateEventsLoop(st, events, n) ==
    IF n = 0
    THEN [tasks_by_uuid |-> st.tasks_by_uuid,
          new_task_num  |-> st.new_task_num,
          root_uuid     |-> st.root_uuid,
          ret           |-> EmptyDict,
          raised        |-> FALSE,
          done          |-> 0]
    ELSE LET acc == AggregateEventsLoop(st, events, n - 1)
         IN  IF acc.raised
             THEN acc
             ELSE LET r == _aggregate_event(
                               [tasks_by_uuid |-> acc.tasks_by_uuid,
                                new_task_num  |-> acc.new_task_num,
                                root_uuid     |-> acc.root_uuid],
                               events[n])
                  IN  [tasks_by_uuid |-> r.tasks_by_uuid,
                       new_task_num  |-> r.new_task_num,
                       root_uuid     |-> r.root_uuid,
                       ret           |-> IF r.raised
                                         THEN EmptyDict
                                         ELSE MergeChanges(acc.ret, r.ret),
                       raised        |-> r.raised,
                       done          |-> IF r.raised THEN acc.done
                                                     ELSE acc.done + 1]

aggregate_events(st, events) == AggregateEventsLoop(st, events, Len(events))

\* tasks_by_uuid.values() filtered by _get_incomplete_tasks, in the dict's
\* insertion order, which is the order of task_num.
RECURSIVE IncompleteInOrder(_, _)
IncompleteInOrder(tasks, n) ==
    IF n = 0
    THEN <<>>
    ELSE LET earlier == IncompleteInOrder(tasks, n - 1)
             here == {u \in _get_incomplete_tasks(tasks) : tasks[u].task_num = n}
         IN  IF here = {}
             THEN earlier
             ELSE Append(earlier, tasks[CHOOSE u \in here : TRUE])

IncompleteEvent_always_incomplete(incomplete_task, clock) ==
    LET new_event == [uuid |-> incomplete_task.uuid, type |-> "task-incomplete"]
        first_started == Get(incomplete_task, "first_started", 0)
        task_runtime == clock - (IF first_started /= 0 THEN first_started ELSE clock)
    IN  IF Get(incomplete_task, "actual_runtime", 0) = 0
        THEN Update(new_event, [actual_runtime |-> task_runtime])
        ELSE new_event

\* The event generate_incomplete_events builds for one incomplete task.
\* "not actual_runtime" and "first_started or now" are truth tests: an
\* absent value and 0 are both falsy.
IncompleteEvent(incomplete_task, clock) ==
    LET event_type ==
            IF Get(incomplete_task, "state", "") \in COMPLETE_RUNSTATES
            THEN "task-completed"
            ELSE "task-incomplete"
        new_event == [uuid |-> incomplete_task.uuid, type |-> event_type]
        first_started == Get(incomplete_task, "first_started", 0)
        task_runtime == clock - (IF first_started /= 0 THEN first_started ELSE clock)
    IN  IF Get(incomplete_task, "actual_runtime", 0) = 0
        THEN Update(new_event, [actual_runtime |-> task_runtime])
        ELSE new_event

generate_incomplete_events_applying(st, clock) ==
    LET incomplete == IncompleteInOrder(st.tasks_by_uuid, st.new_task_num)
        events == [i \in 1..Len(incomplete) |->
                      IncompleteEvent(incomplete[i], clock)]
        applied == aggregate_events(st, events)
    IN  [tasks_by_uuid |-> applied.tasks_by_uuid,
         new_task_num  |-> applied.new_task_num,
         root_uuid     |-> applied.root_uuid,
         ret           |-> events]

\* generate_incomplete_events when the clock reads clock: the state after
\* the call (the method assigns to nothing) and the list it returns (ret).
generate_incomplete_events(st, clock) ==
    LET incomplete == IncompleteInOrder(st.tasks_by_uuid, st.new_task_num)
    IN  [tasks_by_uuid |-> st.tasks_by_uuid,
         new_task_num  |-> st.new_task_num,
         root_uuid     |-> st.root_uuid,
         ret           |-> [i \in 1..Len(incomplete) |->
                               IncompleteEvent(incomplete[i], clock)]]

----------------------------------------------------------------------------
(* The events delivered to the aggregator. *)

\* An event without a uuid, one with a falsy uuid.
MalformedEvents ==
    {[parent_id |-> None, type |-> "task-started"],
     [uuid |-> "", parent_id |-> None, hostname |-> "h1"]}

Started(u) ==
    [uuid |-> u, parent_id |-> None, type |-> "task-started",
     timestamp |-> Some(1), local_received |-> 100]

Succeeded(u) ==
    [uuid |-> u, type |-> "task-succeeded", timestamp |-> Some(2),
     actual_runtime |-> 5]

Revoked(u) ==
    [uuid |-> u, parent_id |-> None, type |-> REVOKED_EVENT_TYPE,
     timestamp |-> Some(3)]

RevokeComplete(u) ==
    [uuid |-> u, type |-> FIREX_REVOKE_COMPLETE_EVENT_TYPE]

\* No state-bearing type: plain copies, a second local_received, and a
\* first_started of the event's own.
Host(u) ==
    [uuid |-> u, hostname |-> "h1", local_received |-> 200,
     first_started |-> 300]

\* A long_name that is not a string.
BadName(u) ==
    [uuid |-> u, parent_id |-> None, long_name |-> None]

\* A child task's event whose type is not state-bearing.
Child(u, parent) ==
    [uuid |-> u, parent_id |-> Some(parent), type |-> "task-incomplete",
     actual_runtime |-> 0]

Events ==
    MalformedEvents
    \cup {Started("A"), Started("B")}
    \cup {Succeeded("A"), Succeeded("B")}
    \cup {Revoked("B"), RevokeComplete("A"), Host("A"), Child("C", "A")}
    \cup {BadName("C")}

----------------------------------------------------------------------------
(* The state machine. *)

State ==
    [tasks_by_uuid |-> tasks_by_uuid,
     new_task_num  |-> new_task_num,
     root_uuid     |-> root_uuid]

\* The threads that share the aggregator.
ThreadIds == {1, 2}

\* A thread that is not in a call: no event, no locals, no exception.
IdleThread ==
    [pc |-> "idle", event |-> EmptyDict, set_root |-> FALSE,
     new_task_data |-> EmptyDict, is_new |-> FALSE, error |-> ""]

\* The aggregator after __init__.
Fresh ==
    [tasks_by_uuid |-> EmptyDict, new_task_num |-> 1, root_uuid |-> None]

Init ==
    /\ tasks_by_uuid = EmptyDict
    /\ new_task_num = 1
    /\ root_uuid = None
    /\ changes = EmptyDict
    /\ raised = FALSE
    /\ history = <<>>
    /\ op = "__init__"
    /\ prior = Fresh
    /\ batch = <<>>
    /\ now = 0
    /\ new_events = <<>>
    /\ threads = [t \in ThreadIds |-> IdleThread]
    /\ lock = None

\* aggregate_events([event]): one event folded into the store.
AggregateEvent(event) ==
    /\ Len(history) < MaxEvents
    /\ LET r == _aggregate_event(State, event)
       IN  /\ tasks_by_uuid' = r.tasks_by_uuid
           /\ new_task_num' = r.new_task_num
           /\ root_uuid' = r.root_uuid
           /\ changes' = r.ret
           /\ raised' = r.raised
    /\ history' = Append(history, event)
    /\ op' = "aggregate_events"
    /\ prior' = State
    /\ batch' = <<event>>
    /\ UNCHANGED <<now, new_events, threads, lock>>

Next == \E event \in Events : AggregateEvent(event)

Spec == Init /\ [][Next]_vars

\* aggregate_events(events).  An event that raises ends the call: the
\* history gets the events up to and including it.
AggregateEvents(events) ==
    /\ Len(history) < MaxEvents
    /\ LET r == aggregate_events(State, events)
       IN  /\ tasks_by_uuid' = r.tasks_by_uuid
           /\ new_task_num' = r.new_task_num
           /\ root_uuid' = r.root_uuid
           /\ changes' = r.ret
           /\ raised' = r.raised
           /\ history' = history \o SubSeq(events, 1,
                                           IF r.raised THEN r.done + 1
                                                       ELSE Len(events))
    /\ op' = "aggregate_events"
    /\ prior' = State
    /\ batch' = events
    /\ UNCHANGED <<now, new_events, threads, lock>>

\* generate_incomplete_events() with the clock reading clock.
GenerateIncompleteEvents(clock) ==
    /\ clock >= now
    /\ LET r == generate_incomplete_events(State, clock)
       IN  /\ tasks_by_uuid' = r.tasks_by_uuid
           /\ new_task_num' = r.new_task_num
           /\ root_uuid' = r.root_uuid
           /\ new_events' = r.ret
    /\ now' = clock
    /\ op' = "generate_incomplete_events"
    /\ prior' = State
    /\ UNCHANGED <<changes, raised, history, batch, threads, lock>>

\* The caller passes the list that generate_incomplete_events returned last
\* to aggregate_events.
FeedBack ==
    /\ new_events /= <<>>
    /\ AggregateEvents(new_events)

\* The events of the incomplete-task scenarios: a started root with a
\* first_started, its completion with a runtime, a completion without a
\* runtime, an event without a type, and a received child whose
\* local_received is 0.
IncompleteScenarioEvents ==
    {Started("A"), Succeeded("A"),
     [uuid |-> "B", type |-> "task-succeeded", timestamp |-> Some(2)],
     [uuid |-> "B", hostname |-> "h1"],
     [uuid |-> "C", parent_id |-> Some("A"), type |-> "task-received",
      local_received |-> 0]}

\* The readings of the clock.
Clock == {100, 150}

NextIncomplete ==
    \/ \E event \in IncompleteScenarioEvents : AggregateEvent(event)
    \/ \E clock \in Clock : GenerateIncompleteEvents(clock)
    \/ FeedBack

SpecIncomplete == Init /\ [][NextIncomplete]_vars

\* Only keys that FIELD_CONFIG does not have, besides the uuid.
Unknown(u) ==
    [uuid |-> u, timestamp |-> Some(7), pid |-> 42]

\* The events of the field scenarios: events with unknown keys only, a
\* long_name alone ("pkg.mod.MyTask"), a name alone, both in one event, a
\* long_name that is not a string, and a state event.
FieldEvents ==
    {Unknown("A"), Unknown("B"), Started("B"), BadName("C"),
     [uuid |-> "A", long_name |-> <<"pkg", "mod", "MyTask">>],
     [uuid |-> "A", name |-> <<"tasks", "Other">>],
     [uuid |-> "B", long_name |-> <<"pkg", "mod", "MyTask">>,
      name |-> <<"tasks", "Other">>]}

NextFields == \E event \in FieldEvents : AggregateEvent(event)

SpecFields == Init /\ [][NextFields]_vars

\* The events of the batch scenarios: one that creates a task and sets the
\* root, a later state of that task, a task-revoked for another task, an
\* event that makes that task known, and one that raises.
BatchEvents ==
    {Started("A"), Succeeded("A"), Revoked("B"), Host("B"), BadName("C")}

\* The lists of at most MaxBatch of these events.
Batches == UNION {[1..n -> BatchEvents] : n \in 0..MaxBatch}

\* The calls deliver at most MaxEvents events in all.
NextBatch ==
    \E events \in Batches :
        /\ Len(history) + Len(events) <= MaxEvents
        /\ AggregateEvents(events)

SpecBatch == Init /\ [][NextBatch]_vars

\* The events of the interleaving scenarios: the state events of task B, an
\* event for B without a type, one for B whose type is not state-bearing,
\* and an event for another task.
InterleaveEvents ==
    {Started("B"), Succeeded("B"), Revoked("B")}
    \cup {Host("B"), [uuid |-> "B", type |-> "task-incomplete"], Started("A")}

NextInterleave == \E event \in InterleaveEvents : AggregateEvent(event)

SpecInterleave == Init /\ [][NextInterleave]_vars

----------------------------------------------------------------------------
(* Threads that share the aggregator.  Each thread makes its               *)
(* aggregate_events([event]) call inside one mutual-exclusion region; in   *)
(* the region _aggregate_event runs statement by statement.                *)

LockFree_always(holder) == TRUE

\* The region can be entered: no thread is in it.
LockFree(holder) == holder = None

\* The events of the thread scenarios: two that create a task and may set
\* the root, a task-revoked, and one that raises after the root assignment.
ThreadEvents == {Started("A"), Started("B"), Revoked("B"), BadName("C")}

\* The calls made so far: those that entered the region and those waiting.
CallsMade ==
    Len(history) + Cardinality({t \in ThreadIds : threads[t].pc = "acquire"})

\* The thread t calls aggregate_events([event]) and waits for the region.
Call(t, event) ==
    /\ threads[t].pc = "idle"
    /\ CallsMade < MaxEvents
    /\ threads' = [threads EXCEPT ![t] = [IdleThread EXCEPT !.pc = "acquire",
                                                            !.event = event]]
    /\ UNCHANGED <<tasks_by_uuid, new_task_num, root_uuid, changes, raised,
                   history, op, prior, batch, now, new_events, lock>>

\* The thread t enters the region.
Acquire(t) ==
    /\ threads[t].pc = "acquire"
    /\ LockFree(lock)
    /\ lock' = Some(t)
    /\ threads' = [threads EXCEPT ![t].pc = "check"]
    /\ history' = Append(history, threads[t].event)
    /\ op' = "aggregate_events"
    /\ prior' = State
    /\ batch' = <<threads[t].event>>
    /\ UNCHANGED <<tasks_by_uuid, new_task_num, root_uuid, changes, raised,
                   now, new_events>>

\* Lines 271-279: the early return.
CheckDropped(t) ==
    /\ threads[t].pc = "check"
    /\ IF IsDropped(State, threads[t].event)
       THEN /\ threads' = [threads EXCEPT ![t].pc = "release"]
            /\ changes' = EmptyDict
            /\ raised' = FALSE
       ELSE /\ threads' = [threads EXCEPT ![t].pc = "root"]
            /\ UNCHANGED <<changes, raised>>
    /\ UNCHANGED <<tasks_by_uuid, new_task_num, root_uuid, history, op,
                   prior, batch, now, new_events, lock>>

\* Line 281: the condition of the root assignment is evaluated.
CheckRoot(t) ==
    /\ threads[t].pc = "root"
    /\ threads' = [threads EXCEPT
                      ![t].pc = "set_root",
                      ![t].set_root =
                          AssignRoot(State, threads[t].event) /= root_uuid]
    /\ UNCHANGED <<tasks_by_uuid, new_task_num, root_uuid, changes, raised,
                   history, op, prior, batch, now, new_events, lock>>

\* Line 282: the root assignment.
SetRoot(t) ==
    /\ threads[t].pc = "set_root"
    /\ root_uuid' = IF threads[t].set_root
                     THEN Some(threads[t].event.uuid)
                     ELSE root_uuid
    /\ threads' = [threads EXCEPT ![t].pc = "data"]
    /\ UNCHANGED <<tasks_by_uuid, new_task_num, changes, raised, history,
                   op, prior, batch, now, new_events, lock>>

\* Lines 284-286: get_new_event_data, which may raise.
GetNewEventData(t) ==
    /\ threads[t].pc = "data"
    /\ IF get_new_event_data_raises(threads[t].event)
       THEN /\ threads' = [threads EXCEPT ![t].pc = "release",
                                           ![t].error = "AttributeError"]
            /\ changes' = EmptyDict
            /\ raised' = TRUE
       ELSE /\ threads' = [threads EXCEPT
                              ![t].pc = "exists",
                              ![t].new_task_data =
                                  get_new_event_data(threads[t].event)]
            /\ UNCHANGED <<changes, raised>>
    /\ UNCHANGED <<tasks_by_uuid, new_task_num, root_uuid, history, op,
                   prior, batch, now, new_events, lock>>

\* Line 255: _get_or_create_task tests _task_exists.
CheckExists(t) ==
    /\ threads[t].pc = "exists"
    /\ threads' = [threads EXCEPT
                      ![t].pc = IF _task_exists(tasks_by_uuid,
                                                threads[t].event.uuid)
                                THEN "find"
                                ELSE "insert"]
    /\ UNCHANGED <<tasks_by_uuid, new_task_num, root_uuid, changes, raised,
                   history, op, prior, batch, now, new_events, lock>>

\* Lines 256-261: the record is built with the task_num read from
\* new_task_num and inserted; an assertion of _insert_new_task that fails
\* ends the call.
Insert(t) ==
    /\ threads[t].pc = "insert"
    /\ LET task == [uuid |-> threads[t].event.uuid, task_num |-> new_task_num]
       IN  IF InsertAsserts(tasks_by_uuid, task)
           THEN /\ threads' = [threads EXCEPT ![t].pc = "release",
                                               ![t].error = "AssertionError"]
                /\ changes' = EmptyDict
                /\ raised' = TRUE
                /\ UNCHANGED tasks_by_uuid
           ELSE /\ tasks_by_uuid' = _insert_new_task(tasks_by_uuid, task)
                /\ threads' = [threads EXCEPT ![t].pc = "increment",
                                               ![t].is_new = TRUE]
                /\ UNCHANGED <<changes, raised>>
    /\ UNCHANGED <<new_task_num, root_uuid, history, op, prior, batch, now,
                   new_events, lock>>

\* Line 262: new_task_num += 1.
Increment(t) ==
    /\ threads[t].pc = "increment"
    /\ new_task_num' = new_task_num + 1
    /\ threads' = [threads EXCEPT ![t].pc = "find"]
    /\ UNCHANGED <<tasks_by_uuid, root_uuid, changes, raised, history, op,
                   prior, batch, now, new_events, lock>>

\* Lines 288-302: find_data_changes, _update_task and the returned mapping.
FindAndUpdate(t) ==
    /\ threads[t].pc = "find"
    /\ LET task_uuid == threads[t].event.uuid
           task == _get_task(tasks_by_uuid, task_uuid)
           changed_data == find_data_changes(task, threads[t].new_task_data)
           tasks_after ==
               IF changed_data /= EmptyDict
               THEN _update_task(tasks_by_uuid, task_uuid, task, changed_data)
               ELSE tasks_by_uuid
       IN  /\ tasks_by_uuid' = tasks_after
           /\ changes' = [u \in {task_uuid} |->
                              IF threads[t].is_new
                              THEN tasks_after[task_uuid]
                              ELSE changed_data]
    /\ raised' = FALSE
    /\ threads' = [threads EXCEPT ![t].pc = "release"]
    /\ UNCHANGED <<new_task_num, root_uuid, history, op, prior, batch, now,
                   new_events, lock>>

\* The call returns or raises, and the thread leaves the region.
Release(t) ==
    /\ threads[t].pc = "release"
    /\ lock' = None
    /\ threads' = [threads EXCEPT ![t].pc = "idle"]
    /\ UNCHANGED <<tasks_by_uuid, new_task_num, root_uuid, changes, raised,
                   history, op, prior, batch, now, new_events>>

NextThreads ==
    \E t \in ThreadIds :
        \/ \E event \in ThreadEvents : Call(t, event)
        \/ Acquire(t)
        \/ CheckDropped(t)
        \/ CheckRoot(t)
        \/ SetRoot(t)
        \/ GetNewEventData(t)
        \/ CheckExists(t)
        \/ Insert(t)
        \/ Increment(t)
        \/ FindAndUpdate(t)
        \/ Release(t)

SpecThreads == Init /\ [][NextThreads]_vars

----------------------------------------------------------------------------
(* What the properties below say about the events delivered so far. *)

\* The event of the last call.
LastEvent == history[Len(history)]

\* The event a step delivers.
Delivered == history'[Len(history')]

\* The event is for the task u.
IsFor(e, u) == "uuid" \in DOMAIN e /\ e.uuid = u

\* parent_id is present and null.
NullParent(e) == "parent_id" \in DOMAIN e /\ e.parent_id = None

\* The event has a state-bearing type.
StateBearing(e) == "type" \in DOMAIN e /\ e.type \in RUN_STATE_EVENT_TYPES

\* No uuid, a falsy uuid, or task-revoked for a uuid unknown to the store.
Rejects(tasks, e) ==
    \/ "uuid" \notin DOMAIN e
    \/ e.uuid = ""
    \/ (Get(e, "type", "") = "task-revoked" /\ e.uuid \notin DOMAIN tasks)

\* The payload is malformed: a long_name or name that is not a string.
Malformed(e) ==
    \/ ("long_name" \in DOMAIN e /\ e.long_name = None)
    \/ ("name" \in DOMAIN e /\ e.name = None)

\* A uuid is known when an earlier event for it was applied, so the i-th
\* event of the history was accepted (not rejected) iff:
RECURSIVE AcceptedAt(_)
AcceptedAt(i) ==
    LET e == history[i]
    IN  /\ "uuid" \in DOMAIN e
        /\ e.uuid /= ""
        /\ \/ Get(e, "type", "") /= "task-revoked"
           \/ \E j \in 1..(i - 1) :
                /\ IsFor(history[j], e.uuid)
                /\ AcceptedAt(j)
                /\ ~Malformed(history[j])

\* The i-th event was accepted and applied to the store.
AppliedAt(i) == AcceptedAt(i) /\ ~Malformed(history[i])

\* The canonical state of a state-bearing event type.
Canonical(type) == IF type = "firex-revoke-complete" THEN "task-revoked" ELSE type

\* One {state, timestamp} entry per accepted state-bearing event for u among
\* the first n events, in arrival order.
RECURSIVE StateEntries(_, _)
StateEntries(u, n) ==
    IF n = 0
    THEN <<>>
    ELSE LET e == history[n]
             before == StateEntries(u, n - 1)
         IN  IF AppliedAt(n) /\ IsFor(e, u) /\ StateBearing(e)
             THEN Append(before, [state     |-> Canonical(e.type),
                                  timestamp |-> Get(e, "timestamp", None)])
             ELSE before

IsPrefix(s, t) == Len(s) <= Len(t) /\ SubSeq(t, 1, Len(s)) = s

----------------------------------------------------------------------------
(* C1 *)

TaskNums == {tasks_by_uuid[u].task_num : u \in DOMAIN tasks_by_uuid}

\* C1: the task_num values of the stored tasks are pairwise distinct and are
\* exactly 1..n for n stored tasks; a step never changes the task_num of a
\* stored task, and a task it creates gets a task_num larger than that of
\* every task created before.
C1_TaskNumDenseOrdered ==
    /\ [](/\ \A u, v \in DOMAIN tasks_by_uuid :
                u /= v => tasks_by_uuid[u].task_num /= tasks_by_uuid[v].task_num
          /\ TaskNums = 1..Cardinality(DOMAIN tasks_by_uuid))
    /\ [][/\ \A u \in DOMAIN tasks_by_uuid :
                /\ u \in DOMAIN tasks_by_uuid'
                /\ tasks_by_uuid'[u].task_num = tasks_by_uuid[u].task_num
          /\ \A v \in DOMAIN tasks_by_uuid' \ DOMAIN tasks_by_uuid :
                \A u \in DOMAIN tasks_by_uuid :
                    tasks_by_uuid[u].task_num < tasks_by_uuid'[v].task_num]_vars

\* Three tasks were created, by the first, a later and the last event.
C1_Witness ==
    /\ Cardinality(DOMAIN tasks_by_uuid) = 3
    /\ IsFor(LastEvent, "C")
    /\ changes /= EmptyDict
    /\ changes["C"].task_num = 3

----------------------------------------------------------------------------
(* C2 *)

\* C2: once a task record has first_started, no step changes or removes it.
C2_FirstStartedWriteOnce ==
    [][\A u \in DOMAIN tasks_by_uuid :
            "first_started" \in DOMAIN tasks_by_uuid[u]
            => /\ u \in DOMAIN tasks_by_uuid'
               /\ "first_started" \in DOMAIN tasks_by_uuid'[u]
               /\ tasks_by_uuid'[u].first_started
                    = tasks_by_uuid[u].first_started]_vars

\* Two accepted events for one task carried different local_received values
\* and the record holds the first one.
C2_Witness ==
    \E u \in DOMAIN tasks_by_uuid :
        \E i, j \in 1..Len(history) :
            /\ i < j
            /\ IsFor(history[i], u) /\ "local_received" \in DOMAIN history[i]
            /\ IsFor(history[j], u) /\ "local_received" \in DOMAIN history[j]
            /\ \A k \in 1..(i - 1) :
                    ~(IsFor(history[k], u) /\ "local_received" \in DOMAIN history[k])
            /\ history[i].local_received /= history[j].local_received
            /\ tasks_by_uuid[u].first_started = history[i].local_received

----------------------------------------------------------------------------
(* C3 *)

\* C3: the states of a task before a step is a prefix of its states after it.
C3_StatesAppendOnly ==
    [][\A u \in DOMAIN tasks_by_uuid :
            "states" \in DOMAIN tasks_by_uuid[u]
            => /\ u \in DOMAIN tasks_by_uuid'
               /\ "states" \in DOMAIN tasks_by_uuid'[u]
               /\ IsPrefix(tasks_by_uuid[u].states, tasks_by_uuid'[u].states)]_vars

\* A task whose states grew to three entries, over events of other kinds.
C3_Witness ==
    \E u \in DOMAIN tasks_by_uuid :
        /\ "states" \in DOMAIN tasks_by_uuid[u]
        /\ Len(tasks_by_uuid[u].states) = 3
        /\ ~StateBearing(LastEvent)
        /\ IsFor(LastEvent, u)

----------------------------------------------------------------------------
(* C4 *)

\* C4: a step that delivers an event without uuid, with a falsy uuid, or of
\* type task-revoked for a uuid not in the store returns the empty mapping
\* and leaves the store, new_task_num and root_uuid unchanged.
C4_RejectedNoEffect ==
    [][Rejects(tasks_by_uuid, Delivered)
        => /\ changes' = EmptyDict
           /\ UNCHANGED <<tasks_by_uuid, new_task_num, root_uuid>>]_vars

\* A task-revoked event with parent_id = null for an unknown uuid was dropped
\* by a non-empty store that has no root yet.
C4_Witness ==
    /\ Len(history) > 1
    /\ Get(LastEvent, "type", "") = "task-revoked"
    /\ NullParent(LastEvent)
    /\ LastEvent.uuid \notin DOMAIN tasks_by_uuid
    /\ tasks_by_uuid /= EmptyDict
    /\ root_uuid = None
    /\ changes = EmptyDict

----------------------------------------------------------------------------
(* C5 *)

\* C5 (as claimed): every stored task has an observed event for its uuid
\* whose canonical state is not task-revoked, that is, whose type is neither
\* task-revoked nor firex-revoke-complete.
C5_NoTaskFromCanonicalRevoke ==
    \A u \in DOMAIN tasks_by_uuid :
        \E i \in 1..Len(history) :
            /\ IsFor(history[i], u)
            /\ Canonical(Get(history[i], "type", "")) /= "task-revoked"

\* C5 (amended): every stored task has an observed event for its uuid whose
\* type is not task-revoked, and a step that delivers a task-revoked event
\* for a uuid unknown to the store creates no task.
C5_NoTaskFromRevoked ==
    /\ [](\A u \in DOMAIN tasks_by_uuid :
            \E i \in 1..Len(history) :
                /\ IsFor(history[i], u)
                /\ Get(history[i], "type", "") /= "task-revoked")
    /\ [][(/\ "uuid" \in DOMAIN Delivered
           /\ Get(Delivered, "type", "") = "task-revoked"
           /\ Delivered.uuid \notin DOMAIN tasks_by_uuid)
          => DOMAIN tasks_by_uuid' = DOMAIN tasks_by_uuid]_vars

\* A task-revoked event for an unknown uuid was the last event, the store
\* holds other tasks and not that uuid.
C5_Witness ==
    /\ Len(history) > 1
    /\ Get(LastEvent, "type", "") = "task-revoked"
    /\ ~AcceptedAt(Len(history))
    /\ LastEvent.uuid \notin DOMAIN tasks_by_uuid
    /\ tasks_by_uuid /= EmptyDict

----------------------------------------------------------------------------
(* C6 *)

\* The observed events that name a task (a truthy uuid) and have parent_id
\* present and null.
NullParentEvents ==
    {i \in 1..Len(history) :
        /\ NullParent(history[i])
        /\ "uuid" \in DOMAIN history[i]
        /\ history[i].uuid /= ""}

FirstNullParent ==
    CHOOSE i \in NullParentEvents : \A j \in NullParentEvents : i <= j

\* C6 (as claimed): once an event with parent_id = null was observed,
\* root_uuid is the uuid of the first such event.
C6_RootIsFirstObservedNullParent ==
    NullParentEvents /= {}
    => root_uuid = Some(history[FirstNullParent].uuid)

\* C6 (amended): a step sets root_uuid, to the delivered event's uuid, exactly
\* when root_uuid is unset and the event is accepted and has parent_id present
\* and null; every other step leaves root_uuid as it is.
C6_RootFixedByFirstAccepted ==
    [][IF /\ root_uuid = None
          /\ NullParent(Delivered)
          /\ ~Rejects(tasks_by_uuid, Delivered)
       THEN root_uuid' = Some(Delivered.uuid)
       ELSE root_uuid' = root_uuid]_vars

\* The root is fixed, and a later event with parent_id = null for another
\* uuid was accepted, after a first event with parent_id = null was dropped.
C6_Witness ==
    /\ root_uuid /= None
    /\ Len(history) > 2
    /\ NullParent(history[1])
    /\ ~AcceptedAt(1)
    /\ NullParent(LastEvent)
    /\ AcceptedAt(Len(history))
    /\ LastEvent.uuid /= root_uuid[1]
    /\ tasks_by_uuid[LastEvent.uuid].parent_id = None

----------------------------------------------------------------------------
(* C7 *)

\* C7 (as claimed): a task for which firex-revoke-complete was aggregated has
\* state task-revoked ever after.
C7_RevokeCompleteNeverOverridden ==
    \A i \in 1..Len(history) :
        (AppliedAt(i) /\ Get(history[i], "type", "") = "firex-revoke-complete")
        => tasks_by_uuid[history[i].uuid].state = "task-revoked"

\* C7 (amended): a step that aggregates firex-revoke-complete for a task
\* leaves its state task-revoked, and a state task-revoked stays under every
\* step but one that delivers a state-bearing event for that task.
C7_RevokedUntilNextStateEvent ==
    [][\A u \in DOMAIN tasks_by_uuid' :
            /\ (/\ IsFor(Delivered, u)
                /\ Get(Delivered, "type", "") = "firex-revoke-complete"
                /\ ~Malformed(Delivered))
               => tasks_by_uuid'[u].state = "task-revoked"
            /\ (/\ u \in DOMAIN tasks_by_uuid
                /\ Get(tasks_by_uuid[u], "state", "") = "task-revoked"
                /\ ~(IsFor(Delivered, u) /\ StateBearing(Delivered)))
               => tasks_by_uuid'[u].state = "task-revoked"]_vars

\* firex-revoke-complete was aggregated for a task that had another state,
\* then an event without state for the same task, and the state is still
\* task-revoked.
C7_Witness ==
    \E i \in 2..(Len(history) - 1) :
        LET u == history[i].uuid
        IN  /\ Get(history[i], "type", "") = "firex-revoke-complete"
            /\ \E j \in 1..(i - 1) :
                    IsFor(history[j], u) /\ Get(history[j], "type", "") = "task-started"
            /\ \A j \in (i + 1)..Len(history) :
                    IsFor(history[j], u) /\ ~StateBearing(history[j])
            /\ tasks_by_uuid[u].state = "task-revoked"

----------------------------------------------------------------------------
(* C8 *)

\* C8: the states of a stored task are the entries of the accepted
\* state-bearing events for its uuid, in arrival order, each with the
\* canonical state and the event's timestamp, and state is the canonical
\* state of the last of them; without such an event the task has neither.
C8_StatesFollowEvents ==
    \A u \in DOMAIN tasks_by_uuid :
        LET entries == StateEntries(u, Len(history))
            task == tasks_by_uuid[u]
        IN  IF entries = <<>>
            THEN "states" \notin DOMAIN task /\ "state" \notin DOMAIN task
            ELSE /\ "states" \in DOMAIN task
                 /\ task.states = entries
                 /\ "state" \in DOMAIN task
                 /\ task.state = entries[Len(entries)].state

\* task-started, firex-revoke-complete, task-succeeded for one task.
C8_Witness ==
    \E u \in DOMAIN tasks_by_uuid :
        /\ "states" \in DOMAIN tasks_by_uuid[u]
        /\ tasks_by_uuid[u].states =
              <<[state |-> "task-started", timestamp |-> Some(1)],
                [state |-> "task-revoked", timestamp |-> None],
                [state |-> "task-succeeded", timestamp |-> Some(2)]>>
        /\ tasks_by_uuid[u].state = "task-succeeded"

----------------------------------------------------------------------------
(* C9 *)

\* The root is unset, or its task is missing, or its state is not complete.
RootNotComplete ==
    \/ root_uuid = None
    \/ root_uuid[1] \notin DOMAIN tasks_by_uuid
    \/ "state" \notin DOMAIN tasks_by_uuid[root_uuid[1]]
    \/ tasks_by_uuid[root_uuid[1]].state \notin COMPLETE_RUNSTATES

\* No stored task lacks actual_runtime or has an incomplete state.
NoIncompleteTask ==
    \A u \in DOMAIN tasks_by_uuid :
        /\ "actual_runtime" \in DOMAIN tasks_by_uuid[u]
        /\ Get(tasks_by_uuid[u], "state", "") \notin INCOMPLETE_RUNSTATES

\* C9: are_all_tasks_complete() is true exactly when is_root_complete() is
\* true and list_incomplete() is empty; it is false whenever the root is
\* unset, missing or not in a complete state.
C9_AllCompleteIffRootAndNoneIncomplete ==
    /\ are_all_tasks_complete(State)
        <=> (is_root_complete(State) /\ _get_incomplete_tasks(tasks_by_uuid) = {})
    /\ is_root_complete(State) <=> ~RootNotComplete
    /\ (_get_incomplete_tasks(tasks_by_uuid) = {}) <=> NoIncompleteTask
    /\ RootNotComplete => ~are_all_tasks_complete(State)

\* No stored task is incomplete, root_uuid is set and its task is missing
\* (the event that fixed the root raised before its task was created).
C9_Witness ==
    /\ tasks_by_uuid /= EmptyDict
    /\ NoIncompleteTask
    /\ root_uuid /= None
    /\ root_uuid[1] \notin DOMAIN tasks_by_uuid
    /\ ~are_all_tasks_complete(State)

----------------------------------------------------------------------------
(* C10 *)

\* C10: a step that delivers again the event of the step before it, when that
\* event has no state-bearing type (and a well-formed payload), leaves the
\* store, new_task_num and root_uuid unchanged and reports an empty delta.
C10_DuplicateCopyOnlyIdempotent ==
    [][(/\ Len(history) > 0
        /\ Delivered = LastEvent
        /\ ~StateBearing(LastEvent)
        /\ ~Malformed(LastEvent))
        => /\ UNCHANGED <<tasks_by_uuid, new_task_num, root_uuid>>
           /\ \A u \in DOMAIN changes' : changes'[u] = EmptyDict]_vars

\* An accepted event without state-bearing type that created a task was
\* delivered a second time.
C10_Witness ==
    /\ Len(history) = 2
    /\ history[1] = history[2]
    /\ ~StateBearing(LastEvent)
    /\ AppliedAt(1)
    /\ LastEvent.uuid \in DOMAIN tasks_by_uuid
    /\ DOMAIN changes = {LastEvent.uuid}
    /\ changes[LastEvent.uuid] = EmptyDict

----------------------------------------------------------------------------
(* C11 *)

Uuids == {"A", "B", "C"}

\* The aggregator after one aggregate_events call per event of events, made
\* on the aggregator st.
RECURSIVE Deliver(_, _)
Deliver(st, events) ==
    IF events = <<>>
    THEN st
    ELSE LET r == _aggregate_event(Deliver(st, SubSeq(events, 1, Len(events) - 1)),
                                   events[Len(events)])
         IN  [tasks_by_uuid |-> r.tasks_by_uuid,
              new_task_num  |-> r.new_task_num,
              root_uuid     |-> r.root_uuid]

\* The states of the task u in the store tasks (none when there is no task).
StatesOf(tasks, u) ==
    IF u \in DOMAIN tasks THEN Get(tasks[u], "states", <<>>) ELSE <<>>

\* The state events of the task u among the events delivered, in order.
StateEventsFor(u) ==
    LET IsStateEvent(e) == IsFor(e, u) /\ StateBearing(e)
    IN  SelectSeq(history, IsStateEvent)

\* The states of u are those of the run that delivers the state events of u
\* alone, whatever was delivered between them.
SameStatesAsAlone(u) ==
    StatesOf(tasks_by_uuid, u)
        = StatesOf(Deliver(Fresh, StateEventsFor(u)).tasks_by_uuid, u)

\* C11 as stated: for every task, the states after any interleaving of its
\* state events with other events are the states after its state events
\* alone.  Violated: task-revoked for a uuid the store does not know is
\* rejected, so an event without a state for the same uuid, delivered
\* before it, decides whether it is recorded.
C11_StatesIndependentOfInterleaving ==
    \A u \in Uuids : SameStatesAsAlone(u)

\* Every task-revoked event of the sequence s comes after a well-formed
\* event of s of another type, which makes the uuid known to the store.
RevokedOnlyWhenKnown(s) ==
    \A i \in 1..Len(s) :
        s[i].type = "task-revoked" =>
            \E j \in 1..(i - 1) : s[j].type /= "task-revoked" /\ ~Malformed(s[j])

\* C11: for a sequence of state events of a task in which every task-revoked
\* event comes after a state event of another type, every interleaving with
\* events that are not state events of the task yields the same states as
\* the sequence alone.
C11_StatesIndependentWhenRevokedKnown ==
    \A u \in Uuids :
        RevokedOnlyWhenKnown(StateEventsFor(u)) => SameStatesAsAlone(u)

\* Two state events of B were recorded, the second a task-revoked, with an
\* event for B that is not a state event and an event for A among them.
C11_Witness ==
    /\ Len(history) = 4
    /\ Len(StateEventsFor("B")) = 2
    /\ Len(StatesOf(tasks_by_uuid, "B")) = 2
    /\ StatesOf(tasks_by_uuid, "B")[2].state = "task-revoked"
    /\ history[1] = Started("B")
    /\ IsFor(history[2], "B") /\ ~StateBearing(history[2])
    /\ IsFor(history[3], "A")
    /\ history[4] = Revoked("B")

----------------------------------------------------------------------------
(* C12 *)

\* The fields of the record after whose value the record before does not
\* have, mapped to their values in after.
AddedOrChanged(task_before, task_after) ==
    [f \in {g \in DOMAIN task_after :
                g \notin DOMAIN task_before \/ task_before[g] /= task_after[g]}
        |-> task_after[f]]

\* C12: a step that delivers an accepted, well-formed event for the uuid u
\* returns a mapping with the one key u: to the whole record stored after
\* the step when the store had no task u (uuid and task_num included), and
\* otherwise to exactly the fields of the record that the step added or
\* changed, with their new values.
C12_ChangeSetIsRecordOrDelta ==
    [][(~Rejects(tasks_by_uuid, Delivered) /\ ~Malformed(Delivered)) =>
        LET u == Delivered.uuid
        IN  /\ DOMAIN changes' = {u}
            /\ u \in DOMAIN tasks_by_uuid'
            /\ IF u \notin DOMAIN tasks_by_uuid
               THEN /\ changes'[u] = tasks_by_uuid'[u]
                    /\ {"uuid", "task_num"} \subseteq DOMAIN changes'[u]
               ELSE changes'[u] = AddedOrChanged(tasks_by_uuid[u],
                                                 tasks_by_uuid'[u])]_vars

\* The last event changed a task that the first event had created: the
\* first change-set was the whole record, the last one is a delta that has
\* some fields of the record and not others.
C12_Witness ==
    /\ Len(history) >= 2
    /\ AppliedAt(Len(history))
    /\ LastEvent.uuid \in DOMAIN prior.tasks_by_uuid
    /\ IsFor(history[1], LastEvent.uuid)
    /\ changes[LastEvent.uuid] /= EmptyDict
    /\ "uuid" \notin DOMAIN changes[LastEvent.uuid]
    /\ "states" \in DOMAIN changes[LastEvent.uuid]

----------------------------------------------------------------------------
(* C13 *)

\* C13: a call of generate_incomplete_events leaves the store, new_task_num
\* and root_uuid as they were, and is_root_complete and
\* are_all_tasks_complete answer after it what they answered before it.
C13_GenerateAppliesNothing ==
    [][op' = "generate_incomplete_events" =>
        /\ tasks_by_uuid' = tasks_by_uuid
        /\ new_task_num' = new_task_num
        /\ root_uuid' = root_uuid
        /\ is_root_complete(State') = is_root_complete(State)
        /\ are_all_tasks_complete(State') = are_all_tasks_complete(State)]_vars

\* generate_incomplete_events has just returned two events, for a store
\* whose root is complete.
C13_Witness ==
    /\ op = "generate_incomplete_events"
    /\ Len(new_events) = 2
    /\ is_root_complete(State)
    /\ ~are_all_tasks_complete(State)
    /\ prior = State

----------------------------------------------------------------------------
(* C14 *)

\* list_incomplete(): the tasks without an actual_runtime or with a state
\* of INCOMPLETE_RUNSTATES.
ListIncomplete ==
    {u \in DOMAIN tasks_by_uuid :
        \/ "actual_runtime" \notin DOMAIN tasks_by_uuid[u]
        \/ Get(tasks_by_uuid[u], "state", "") \in {"task-received", "task-started"}}

\* new_events has one event per task of list_incomplete(), with its uuid.
OneEventPerIncompleteTask ==
    /\ Len(new_events) = Cardinality(ListIncomplete)
    /\ {new_events[i].uuid : i \in 1..Len(new_events)} = ListIncomplete

\* The type of every event of new_events follows the state of its task.
TypeFollowsState ==
    \A i \in 1..Len(new_events) :
        new_events[i].type =
            IF Get(tasks_by_uuid[new_events[i].uuid], "state", "")
                   \in {"task-succeeded", "task-failed", "task-revoked"}
            THEN "task-completed"
            ELSE "task-incomplete"

\* C14 as stated: after generate_incomplete_events, new_events has one event
\* per task of list_incomplete(), typed by the task's state, and the event
\* of a task without actual_runtime carries actual_runtime = now -
\* first_started, or 0 when the task has no first_started.  Violated by a
\* task whose first_started is 0: its event carries 0, not now.
C14_RuntimeSinceFirstStarted ==
    op = "generate_incomplete_events" =>
        /\ OneEventPerIncompleteTask
        /\ TypeFollowsState
        /\ \A i \in 1..Len(new_events) :
              LET e == new_events[i]
                  task == tasks_by_uuid[e.uuid]
              IN  "actual_runtime" \notin DOMAIN task =>
                      /\ "actual_runtime" \in DOMAIN e
                      /\ e.actual_runtime =
                             IF "first_started" \in DOMAIN task
                             THEN now - task.first_started
                             ELSE 0

\* C14: after generate_incomplete_events, new_events has one event per task
\* of list_incomplete(), with the task's uuid; its type is task-completed
\* when the task's state is in COMPLETE_RUNSTATES and task-incomplete
\* otherwise; and the event of a task without actual_runtime carries
\* actual_runtime = now - first_started when the task has a first_started
\* other than 0, and 0 otherwise.
C14_RuntimeSinceTruthyFirstStarted ==
    op = "generate_incomplete_events" =>
        /\ OneEventPerIncompleteTask
        /\ TypeFollowsState
        /\ \A i \in 1..Len(new_events) :
              LET e == new_events[i]
                  task == tasks_by_uuid[e.uuid]
              IN  "actual_runtime" \notin DOMAIN task =>
                      /\ "actual_runtime" \in DOMAIN e
                      /\ e.actual_runtime =
                             IF /\ "first_started" \in DOMAIN task
                                /\ task.first_started /= 0
                             THEN now - task.first_started
                             ELSE 0

\* generate_incomplete_events returned three events at 150: for the started
\* task A a task-incomplete with the runtime 50, for the succeeded task B
\* without runtime a task-completed with the runtime 0, and for the task C
\* whose first_started is 0 a task-incomplete with the runtime 0.
C14_Witness ==
    /\ op = "generate_incomplete_events"
    /\ now = 150
    /\ \E i, j, k \in 1..Len(new_events) :
          /\ new_events[i] = [uuid |-> "A", type |-> "task-incomplete",
                              actual_runtime |-> 50]
          /\ new_events[j] = [uuid |-> "B", type |-> "task-completed",
                              actual_runtime |-> 0]
          /\ new_events[k] = [uuid |-> "C", type |-> "task-incomplete",
                              actual_runtime |-> 0]
          /\ tasks_by_uuid["C"].first_started = 0

----------------------------------------------------------------------------
(* C15 *)

\* The step passes the list that generate_incomplete_events returned to
\* aggregate_events.
FedBack == op' = "aggregate_events" /\ batch' = new_events

----------------------------------------------------------------------------
(* C16 *)

\* A generate_incomplete_events called in the state st returns an event for
\* the task u (whatever the clock reads).
WouldGenerateFor(st, u) ==
    \E clock \in Clock :
        LET events == generate_incomplete_events(st, clock).ret
        IN  \E i \in 1..Len(events) : events[i].uuid = u

----------------------------------------------------------------------------
(* C17 *)

\* C17: a call that raises leaves the store, new_task_num and root_uuid as
\* they were before it.  Violated: _aggregate_event assigns root_uuid
\* before get_new_event_data raises, so an event with a null parent_id and
\* a long_name that is not a string, delivered while there is no root,
\* raises and leaves its uuid as the root_uuid.
C17_NoPartialFailure ==
    [][raised' =>
        /\ tasks_by_uuid' = tasks_by_uuid
        /\ new_task_num' = new_task_num
        /\ root_uuid' = root_uuid]_vars

----------------------------------------------------------------------------
(* C18 *)

\* The keys of the field policy table.
PolicyTableFields ==
    {"uuid", "hostname", "parent_id", "type", "retries", "bound_args",
     "actual_runtime", "utcoffset", "default_bound_args", "from_plugin",
     "results", "traceback", "exception", "long_name", "name", "chain_depth",
     "first_started", "exception_cause_uuid", "states", "url", "log_filepath",
     "local_received"}

\* A truthy uuid is the only key of the event that the table has.
OnlyUuidRecognized(e) ==
    /\ "uuid" \in DOMAIN e
    /\ e.uuid /= ""
    /\ DOMAIN e \cap PolicyTableFields = {"uuid"}

\* C18: no key of a delivered event that the field policy table does not
\* have is a field of a stored record; and a step that delivers an event
\* whose only recognized field is a truthy uuid adds the record
\* {uuid, task_num} when the store has no task of that uuid, and otherwise
\* leaves the store as it was and returns an empty change-set for the uuid.
C18_UnknownFieldsIgnored ==
    /\ [](\A i \in 1..Len(history) :
            \A k \in DOMAIN history[i] \ PolicyTableFields :
                \A u \in DOMAIN tasks_by_uuid : k \notin DOMAIN tasks_by_uuid[u])
    /\ [][OnlyUuidRecognized(Delivered) =>
            LET u == Delivered.uuid
            IN  IF u \notin DOMAIN tasks_by_uuid
                THEN /\ DOMAIN tasks_by_uuid' = DOMAIN tasks_by_uuid \cup {u}
                     /\ tasks_by_uuid'[u] = [uuid |-> u, task_num |-> new_task_num]
                     /\ \A v \in DOMAIN tasks_by_uuid :
                            tasks_by_uuid'[v] = tasks_by_uuid[v]
                ELSE /\ tasks_by_uuid' = tasks_by_uuid
                     /\ changes' = [v \in {u} |-> EmptyDict]]_vars

\* An event with unknown keys only created the task A, which has the fields
\* uuid and task_num; the event was delivered again, to no effect; between
\* the two a task B was stored.
C18_Witness ==
    /\ Len(history) = 3
    /\ history[1] = Unknown("A")
    /\ history[2] = Started("B")
    /\ history[3] = Unknown("A")
    /\ tasks_by_uuid["A"] = [uuid |-> "A", task_num |-> 1]
    /\ changes = [v \in {"A"} |-> EmptyDict]
    /\ "B" \in DOMAIN tasks_by_uuid

----------------------------------------------------------------------------
(* C19 *)

\* The event is accepted, does not raise, and carries a long_name.
AcceptedWithLongName(e) ==
    /\ ~Rejects(tasks_by_uuid, e)
    /\ ~Malformed(e)
    /\ "long_name" \in DOMAIN e

\* C19 as stated: after a step that delivers an accepted event with a
\* long_name, the task's long_name is the event's and its name is the last
\* segment of the event's long_name.  Violated by an event that carries a
\* name too: the transform of name is applied after that of long_name and
\* writes both fields.
C19_LongNameSetsName ==
    [][AcceptedWithLongName(Delivered) =>
        LET e == Delivered
        IN  /\ tasks_by_uuid'[e.uuid].long_name = e.long_name
            /\ tasks_by_uuid'[e.uuid].name = <<e.long_name[Len(e.long_name)]>>]_vars

\* C19: after a step that delivers an accepted event with a long_name and
\* no name, the task's long_name is the event's and its name is the last
\* segment of the event's long_name; when the event carries a name too, the
\* task's long_name is the event's name and its name is the last segment
\* of the event's name.
C19_LongNameSetsNameUnlessNameSent ==
    [][AcceptedWithLongName(Delivered) =>
        LET e == Delivered
            full == IF "name" \in DOMAIN e THEN e.name ELSE e.long_name
        IN  /\ tasks_by_uuid'[e.uuid].long_name = full
            /\ tasks_by_uuid'[e.uuid].name = <<full[Len(full)]>>]_vars

\* The task A got "pkg.mod.MyTask" as its long_name from an event without a
\* name, and the task B got "tasks.Other" from an event with both.
C19_Witness ==
    /\ {"A", "B"} \subseteq DOMAIN tasks_by_uuid
    /\ "long_name" \in DOMAIN LastEvent
    /\ "long_name" \in DOMAIN tasks_by_uuid["A"]
    /\ "long_name" \in DOMAIN tasks_by_uuid["B"]
    /\ tasks_by_uuid["A"].long_name = <<"pkg", "mod", "MyTask">>
    /\ tasks_by_uuid["A"].name = <<"MyTask">>
    /\ tasks_by_uuid["B"].long_name = <<"tasks", "Other">>
    /\ tasks_by_uuid["B"].name = <<"Other">>

----------------------------------------------------------------------------
(* C20 *)

\* The aggregator's state of a result of aggregate_events.
StateOf(r) ==
    [tasks_by_uuid |-> r.tasks_by_uuid,
     new_task_num  |-> r.new_task_num,
     root_uuid     |-> r.root_uuid]

\* The state after aggregate_events(events[:k]) followed by
\* aggregate_events(events[k:]) on the aggregator st.  An exception of the
\* first call reaches the caller, who then does not make the second.
SplitAt(st, events, k) ==
    LET first == aggregate_events(st, SubSeq(events, 1, k))
    IN  IF first.raised
        THEN StateOf(first)
        ELSE StateOf(aggregate_events(StateOf(first),
                                      SubSeq(events, k + 1, Len(events))))

\* After aggregate_events(batch), the state is that of the two calls of
\* every split of the batch.
SplitAnywhere ==
    op = "aggregate_events" =>
        \A k \in 0..Len(batch) : State = SplitAt(prior, batch, k)

\* A call that raised at the event k + 1 of the batch, and so was abandoned
\* after k events, leaves the state that the first k events produce.
AbandonedKeepsPrefix ==
    (op = "aggregate_events" /\ raised) =>
        \E k \in 0..(Len(batch) - 1) :
            /\ ~aggregate_events(prior, SubSeq(batch, 1, k)).raised
            /\ aggregate_events(prior, SubSeq(batch, 1, k + 1)).raised
            /\ State = StateOf(aggregate_events(prior, SubSeq(batch, 1, k)))

\* C20: after aggregate_events(batch) the store, new_task_num and root_uuid
\* are those of aggregate_events(batch[:k]) followed by
\* aggregate_events(batch[k:]), for every k; and a batch abandoned after k
\* events leaves the state that its first k events produce.  Violated in
\* its second part: the event that raises and ends the batch has already
\* set root_uuid when it has a null parent_id and there was no root.
C20_CommittedFoldNoRollback ==
    SplitAnywhere /\ AbandonedKeepsPrefix

----------------------------------------------------------------------------
(* C21 *)

\* C21: every stored record has a uuid field, which is the key it is stored
\* under; and a step keeps every stored task and its uuid field.
C21_UuidIsStoreKey ==
    /\ [](\A u \in DOMAIN tasks_by_uuid :
            Get(tasks_by_uuid[u], "uuid", "") = u)
    /\ [][\A u \in DOMAIN tasks_by_uuid :
            /\ u \in DOMAIN tasks_by_uuid'
            /\ Get(tasks_by_uuid'[u], "uuid", "")
                  = Get(tasks_by_uuid[u], "uuid", "")]_vars

\* Three tasks are stored, and the last event changed fields of a task that
\* an earlier event had created.
C21_Witness ==
    /\ DOMAIN tasks_by_uuid = {"A", "B", "C"}
    /\ Len(history) = 4
    /\ AppliedAt(4)
    /\ LastEvent.uuid \in DOMAIN prior.tasks_by_uuid
    /\ changes[LastEvent.uuid] /= EmptyDict
    /\ tasks_by_uuid[LastEvent.uuid] /= prior.tasks_by_uuid[LastEvent.uuid]

----------------------------------------------------------------------------
(* C22 *)

\* C22: a call raises only for a malformed payload, so no assertion of
\* _insert_new_task ever fails; and a step that delivers an accepted,
\* well-formed event for a uuid that the store has keeps the tasks and
\* their task_num and does not change new_task_num, while one for a uuid
\* that the store does not have inserts it and adds one to new_task_num.
C22_InsertOnlyWhenAbsent ==
    /\ [](raised => Malformed(LastEvent))
    /\ [][(~Rejects(tasks_by_uuid, Delivered) /\ ~Malformed(Delivered)) =>
            LET u == Delivered.uuid
            IN  IF u \in DOMAIN tasks_by_uuid
                THEN /\ DOMAIN tasks_by_uuid' = DOMAIN tasks_by_uuid
                     /\ tasks_by_uuid'[u].task_num = tasks_by_uuid[u].task_num
                     /\ new_task_num' = new_task_num
                ELSE /\ DOMAIN tasks_by_uuid' = DOMAIN tasks_by_uuid \cup {u}
                     /\ tasks_by_uuid'[u].task_num = new_task_num
                     /\ new_task_num' = new_task_num + 1]_vars

\* The uuid A was observed three times, by events that changed the task,
\* and a task B was inserted after it: A has the task_num 1, B the 2, and
\* the next one is 3.
C22_Witness ==
    /\ Len(history) = 4
    /\ Cardinality({i \in 1..4 : IsFor(history[i], "A") /\ AppliedAt(i)}) = 3
    /\ IsFor(LastEvent, "A")
    /\ ~raised
    /\ changes["A"] /= EmptyDict
    /\ DOMAIN tasks_by_uuid = {"A", "B"}
    /\ tasks_by_uuid["A"].task_num = 1
    /\ tasks_by_uuid["B"].task_num = 2
    /\ new_task_num = 3

----------------------------------------------------------------------------
(* C24 *)

\* The places in the history of the events of the last call, which
\* returned.
LastBatchIndices == (Len(history) - Len(batch) + 1)..Len(history)

\* C24: when aggregate_events has returned, every uuid of the mapping it
\* returned has a task, every field of the uuid's change-set is a field of
\* that task with the same value, and the uuids of the mapping are those of
\* the accepted events of the batch.
C24_BatchChangesMatchStore ==
    (op = "aggregate_events" /\ ~raised) =>
        /\ \A u \in DOMAIN changes :
              /\ u \in DOMAIN tasks_by_uuid
              /\ \A f \in DOMAIN changes[u] :
                    /\ f \in DOMAIN tasks_by_uuid[u]
                    /\ changes[u][f] = tasks_by_uuid[u][f]
        /\ DOMAIN changes
              = {history[i].uuid : i \in {j \in LastBatchIndices : AcceptedAt(j)}}

\* A batch of a task-succeeded for the task A, which an earlier call had
\* started, and a task-revoked for the unknown B: the mapping has A alone,
\* with the type of the last event and both states entries of A.
C24_Witness ==
    /\ op = "aggregate_events"
    /\ ~raised
    /\ batch = <<Succeeded("A"), Revoked("B")>>
    /\ "A" \in DOMAIN prior.tasks_by_uuid
    /\ Len(StatesOf(prior.tasks_by_uuid, "A")) = 1
    /\ prior.tasks_by_uuid["A"].type = "task-started"
    /\ DOMAIN changes = {"A"}
    /\ changes["A"].type = "task-succeeded"
    /\ Len(changes["A"].states) = 2
    /\ changes["A"].states = tasks_by_uuid["A"].states

----------------------------------------------------------------------------
(* C23 *)

\* A thread in the region has finished _aggregate_event: the state and the
\* outcome are those of _aggregate_event applied, in one piece, to the
\* state the thread found when it entered.
CallMatchesAggregateEvent ==
    \A t \in ThreadIds :
        threads[t].pc = "release" =>
            LET r == _aggregate_event(prior, threads[t].event)
            IN  /\ State = StateOf(r)
                /\ changes = r.ret
                /\ raised = r.raised

\* C23: with every call inside the region, in every interleaving of the
\* threads the task_num values of the stored tasks are pairwise distinct
\* and are 1..n for n tasks, no call ends with an assertion that failed,
\* and a root_uuid that is set is never assigned again.
C23_LockedCallsKeepInvariants ==
    /\ [](/\ \A u, v \in DOMAIN tasks_by_uuid :
                u /= v => tasks_by_uuid[u].task_num /= tasks_by_uuid[v].task_num
          /\ TaskNums = 1..Cardinality(DOMAIN tasks_by_uuid)
          /\ \A t \in ThreadIds : threads[t].error /= "AssertionError")
    /\ [][root_uuid /= None => root_uuid' = root_uuid]_vars

\* Both threads made calls that set out to create a task and to set the
\* root: while one thread was in the region the other was waiting for it;
\* two tasks are stored and the root is the task of the call that entered
\* first.
C23_Witness ==
    /\ DOMAIN tasks_by_uuid = {"A", "B"}
    /\ Len(history) = 2
    /\ history[1] = Started("B")
    /\ history[2] = Started("A")
    /\ root_uuid = Some("B")
    /\ threads[1].event = Started("A")
    /\ threads[1].pc = "release"
    /\ threads[1].is_new
    /\ lock = Some(1)
    /\ threads[2].pc = "acquire"
    /\ threads[2].event = Started("A")

====
